---- MODULE Spec2Model ----
(***************************************************************************)
(* KRAMO (src/KRAMO2.pyw): the watchdog thread (WatchdogWorker.run and     *)
(* _perform_restart), the two surface handlers that start and stop it      *)
(* (KramoMainWindow._start_monitoring, _stop_monitoring) and the helper    *)
(* capping of ProcessManager.limit_strap_processes.                        *)
(*                                                                         *)
(* Time is in seconds.  A time.sleep(d) is a countdown timer sleep_left    *)
(* that Advance lets run down; code between two sleeps takes no time.  A   *)
(* timestamp taken with datetime.now() is kept as its age (the seconds     *)
(* since it was taken), so that `now - cycle_start` is cycle_start_age.    *)
(* Text is a sequence of tokens, "" is << >>.                              *)
(***************************************************************************)
EXTENDS Integers, Sequences, FiniteSets, TLC

\* ---------------------------------------------------------------- bounds
MaxWorkers == 2
MaxCount == 3
SurfaceTicks == 2
MaxProcs == 3
MaxCreateTime == 3
ConfigTicks == 1

\* ------------------------------------------------------ AppConstants
VERIFY_DELAY == 30
MAX_RETRIES == 3
WARNING_OFFSET == 60
MONITOR_INTERVAL == 5
SETTLE_DELAY == 1
STOP_WAIT == 5

ROBLOX_PROCESS == <<"roblox", "player", "beta", ".exe">>
STRAP_SUFFIX == <<"strap", ".exe">>

StatusRunning == "Running"
StatusStopped == "Stopped"
StatusFailed == "Failed"

VARIABLES
    worker,             \* id -> a WatchdogWorker: its fields, its thread's place and locals
    watchdog,           \* KramoMainWindow.watchdog (0 is None)
    ui_pc,              \* the surface: "idle", or "waiting" inside watchdog.wait
    wait_left,          \* seconds left of watchdog.wait(5000)
    start_btn,          \* start_btn.isEnabled()
    stop_btn,           \* stop_btn.isEnabled()
    config,             \* KramoMainWindow.config: the value of the AppConfig it refers to
    shared,             \* the worker whose config is that same object (0: no worker's)
    coord_label,        \* coord_value_label.text()
    manual_checked,     \* manual_coord_checkbox.isChecked()
    config_file,        \* what kramo_config.json holds
    status_label,       \* status_label.text()
    delivered,          \* id -> how many of the worker's status_changed signals ran their slot
    starts_left,        \* how many more workers the explored session may start
    ticks_left,         \* how many more poll ticks the explored session may hold (-1: any)
    procs,              \* the processes psutil.process_iter lists, in its order
    kill_calls,         \* the proc.kill() calls made, in order: <<pid, outcome>>
    cap_result,         \* what limit_strap_processes returned ("" before it ran)
    saved,              \* the configuration save_config last wrote (NoConfig: none)
    load_result,        \* what load_config gave back, called on its own
    send_call           \* a send_notification call on its own: its input, POSTs and result

cfgVars == <<config, shared, coord_label, manual_checked, config_file>>
statusVars == <<status_label, delivered>>
uiVars == <<watchdog, ui_pc, wait_left, start_btn, stop_btn, cfgVars, statusVars>>
capVars == <<procs, kill_calls, cap_result, saved, load_result, send_call>>
budgetVars == <<starts_left, ticks_left>>
vars == <<worker, uiVars, capVars, budgetVars>>

Workers == 1..MaxWorkers
Counts == 0..MaxCount

\* ------------------------------------------------------------------ text
RECURSIVE StripLeft(_)
StripLeft(s) == IF s # << >> /\ Head(s) = " " THEN StripLeft(Tail(s)) ELSE s

RECURSIVE StripRight(_)
StripRight(s) ==
    IF s # << >> /\ s[Len(s)] = " " THEN StripRight(SubSeq(s, 1, Len(s) - 1)) ELSE s

Strip(s) == StripRight(StripLeft(s))

StartsWith(s, p) == Len(s) >= Len(p) /\ SubSeq(s, 1, Len(p)) = p

EndsWith(s, p) == Len(s) >= Len(p) /\ SubSeq(s, Len(s) - Len(p) + 1, Len(s)) = p

LowerToken(t) ==
    CASE t = "Roblox" -> "roblox"
      [] t = "Player" -> "player"
      [] t = "Beta" -> "beta"
      [] t = "Strap" -> "strap"
      [] t = "Blox" -> "blox"
      [] t = ".EXE" -> ".exe"
      [] OTHER -> t

Lower(s) == [i \in 1..Len(s) |-> LowerToken(s[i])]

\* ------------------------------------------------------------- AppConfig
DiscordPrefix == <<"https://discord.com", "/api/webhooks/">>
DiscordAppPrefix == <<"https://discordapp.com", "/api/webhooks/">>

IsValidWebhookUrl(url) ==
    StartsWith(url, DiscordPrefix) \/ StartsWith(url, DiscordAppPrefix)

\* button_coord: None, the tuple (x, y), or what a file held in its place
NoCoord == [kind |-> "None", x |-> 0, y |-> 0]

Pair(k, x, y) == [kind |-> k, x |-> x, y |-> y]

\* bool(coord) of lines 113, 298 and 609
Truthy(coord) == coord.kind # "None"

AppConfig(i, w1, w2, p, l, c) ==
    [interval_min |-> i, webhook1 |-> w1, webhook2 |-> w2, ping_id |-> p,
     limit_strap |-> l, button_coord |-> c]

\* __post_init__ raises ValueError
PostInitRaises(c) ==
    \/ c.interval_min < 1 \/ c.interval_min > 999
    \/ \E w \in {c.webhook1, c.webhook2} : w # << >> /\ ~IsValidWebhookUrl(w)

SelectSeq2(a, b, Test(_)) ==
    (IF Test(a) THEN <<a>> ELSE << >>) \o (IF Test(b) THEN <<b>> ELSE << >>)

NonBlank(url) == Strip(url) # << >>

Webhooks(c) == SelectSeq2(c.webhook1, c.webhook2, NonBlank)

HasValidWebhooksUnchecked(c) == TRUE

HasValidWebhooks(c) == Len(Webhooks(c)) > 0

NoConfig == AppConfig(0, << >>, << >>, << >>, FALSE, NoCoord)

\* AppConfig(): the defaults of lines 72-77
DefaultConfig == AppConfig(28, << >>, << >>, << >>, FALSE, NoCoord)

\* A dict with the six keys of AppConfig; extra: it also has a key AppConfig lacks
Dict(c, extra) ==
    [interval_min |-> c.interval_min, webhook1 |-> c.webhook1, webhook2 |-> c.webhook2,
     ping_id |-> c.ping_id, limit_strap |-> c.limit_strap, button_coord |-> c.button_coord,
     extra |-> extra]

\* to_dict: asdict leaves a tuple a tuple
ToDict(c) == Dict(c, FALSE)

\* json.dump: tuples and lists are written as arrays, None as null
JsonDump(d) ==
    [d EXCEPT !.button_coord.kind =
        CASE @ \in {"tuple", "list"} -> "array"
          [] @ = "list3" -> "array3"
          [] OTHER -> "null"]

\* json.load: arrays are read as lists, null as None
JsonLoad(t) ==
    [t EXCEPT !.button_coord.kind =
        CASE @ = "array" -> "list"
          [] @ = "array3" -> "list3"
          [] OTHER -> "None"]

\* What a call gives back: a value, or an exception
Return(c) == [raised |-> FALSE, value |-> c]
Raise == [raised |-> TRUE, value |-> NoConfig]

\* from_dict: a list or tuple of 2 becomes a tuple; cls(**data) raises TypeError
\* on an unknown key and ValueError from __post_init__
FromDictKeepsList(data) ==
    LET c == AppConfig(data.interval_min, data.webhook1, data.webhook2, data.ping_id,
                       data.limit_strap, data.button_coord)
    IN  IF data.extra \/ PostInitRaises(c) THEN Raise ELSE Return(c)

FromDict(data) ==
    LET coord == data.button_coord
        c == AppConfig(data.interval_min, data.webhook1, data.webhook2, data.ping_id,
                       data.limit_strap,
                       IF Truthy(coord) /\ coord.kind \in {"list", "tuple"}
                       THEN [coord EXCEPT !.kind = "tuple"] ELSE coord)
    IN  IF data.extra \/ PostInitRaises(c) THEN Raise ELSE Return(c)

\* Sample field values
Hook1 == DiscordPrefix \o <<"1/a">>
Hook2 == DiscordAppPrefix \o <<"2/b">>
BadHook == <<"http://example.com", "/hook">>
Ping == <<"42">>
Coord == Pair("tuple", 10, 20)
Coord2 == Pair("tuple", 30, 40)

\* The configurations AppConfig(...) accepts, over a few values of each field
ValidConfigs ==
    {c \in [interval_min : {1, 28, 999}, webhook1 : {<< >>, Hook1}, webhook2 : {<< >>, Hook2},
            ping_id : {<< >>, Ping}, limit_strap : BOOLEAN,
            button_coord : {NoCoord, Coord, Coord2}] : ~PostInitRaises(c)}

\* ---------------------------------------------------------- ConfigManager
\* kramo_config.json: absent, not readable, not JSON, JSON but no object, or an
\* object (data is then its text)
File(k, c, extra) == [kind |-> k, data |-> JsonDump(Dict(c, extra))]

NoFile(k) == File(k, NoConfig, FALSE)

\* load_config, lines 137-140: the try block; with no file it falls through to
\* line 145
TryLoad(file) ==
    CASE file.kind = "absent" -> Return(DefaultConfig)
      [] file.kind = "json" -> FromDict(JsonLoad(file.data))
      [] OTHER -> Raise

\* load_config, lines 141-145: except Exception, then the defaults
NoExcept(r) == r

ExceptThenDefault(r) == IF r.raised THEN Return(DefaultConfig) ELSE r

LoadConfig(file) == ExceptThenDefault(TryLoad(file))

\* save_config: the file after it, when the write went through
SaveConfig(c) == File("json", c, FALSE)

NotCalled == [called |-> FALSE, raised |-> FALSE, value |-> NoConfig]

Called(r) == [called |-> TRUE, raised |-> r.raised, value |-> r.value]

\* load_config, called on the file as it is
LoadConfigCall ==
    /\ ~load_result.called
    /\ load_result' = Called(LoadConfig(config_file))
    /\ UNCHANGED <<worker, uiVars, budgetVars, procs, kill_calls, cap_result, saved, send_call>>

\* save_config(c): the write goes through, or open() raises and the file stays,
\* or the write raises half way and leaves no JSON behind
SaveConfigCall ==
    /\ \E c \in ValidConfigs, outcome \in {"written", "open raised", "write raised"} :
        /\ config_file' = CASE outcome = "written" -> SaveConfig(c)
                             [] outcome = "open raised" -> config_file
                             [] OTHER -> NoFile("notjson")
        /\ saved' = CASE outcome = "written" -> c
                       [] outcome = "open raised" -> saved
                       [] OTHER -> NoConfig
    /\ load_result' = NotCalled
    /\ UNCHANGED <<worker, watchdog, ui_pc, wait_left, start_btn, stop_btn, config, shared,
                   coord_label, manual_checked, statusVars, budgetVars, procs, kill_calls,
                   cap_result, send_call>>

\* ------------------------------------------------- what a worker did
Ev(e, m, n, k) == [ev |-> e, msg |-> m, n |-> n, k |-> k, to |-> << >>, mention |-> << >>]

\* What requests.post(...) followed by raise_for_status() does for one URL:
\* "ok", or one of the exceptions of requests (all subclasses of RequestException)
PostOutcomes == {"ok", "ConnectionError", "Timeout", "HTTPError"}

\* line 274: except requests.RequestException
ExceptNothing(exc) == FALSE

ExceptRequestException(exc) == exc \in {"ConnectionError", "Timeout", "HTTPError"}

\* the for loop of send_notification, lines 271-275: st is what was POSTed so
\* far, success_count, and whether an exception left the loop
RECURSIVE PostEach(_, _, _, _)
PostEach(urls, outcome, content, st) ==
    IF urls = << >> \/ st.raised
    THEN st
    ELSE LET posted == [st EXCEPT !.posts = @ \o <<[url |-> Head(urls), content |-> content]>>]
             after == CASE Head(outcome) = "ok" ->
                               [posted EXCEPT !.success_count = @ + 1]
                        [] ExceptRequestException(Head(outcome)) -> posted
                        [] OTHER -> [posted EXCEPT !.raised = TRUE]
         IN  PostEach(Tail(urls), Tail(outcome), content, after)

\* send_notification(content) of a WebhookManager with these urls, lines 259-278
SendNotificationTo(urls, outcome, content) ==
    LET st == PostEach(urls, outcome, content,
                       [posts |-> << >>, success_count |-> 0, raised |-> FALSE])
    IN  IF urls = << >>
        THEN [posts |-> << >>, raised |-> FALSE, value |-> FALSE]
        ELSE [posts |-> st.posts, raised |-> st.raised,
              value |-> ~st.raised /\ st.success_count > 0]

NotSent == [called |-> FALSE, urls |-> << >>, outcome |-> << >>, posts |-> << >>,
            raised |-> FALSE, value |-> FALSE]

\* WebhookManager(urls).send_notification(content), called on its own
SendNotificationCall ==
    /\ \E c \in ValidConfigs, content \in {"warning", "crash", "scheduled", "retry", "failure"} :
        LET urls == SelectSeq(Webhooks(c), NonBlank)
        IN  \E outcome \in [1..Len(urls) -> PostOutcomes] :
                LET r == SendNotificationTo(urls, outcome, content)
                IN  send_call' = [called |-> TRUE, urls |-> urls, outcome |-> outcome,
                             posts |-> r.posts, raised |-> r.raised, value |-> r.value]
    /\ UNCHANGED <<worker, uiVars, budgetVars, procs, kill_calls, cap_result, saved,
                   load_result>>

\* WebhookManager.send_notification as a worker's log shows it: one POST per
\* configured URL, each in its own try, so `to` is every URL whatever the earlier
\* POSTs did.
SendNotification(urls, m, n, mention) ==
    IF urls = << >>
    THEN << >>
    ELSE <<[ev |-> "notify", msg |-> m, n |-> n, k |-> 0, to |-> urls, mention |-> mention]>>

Emit(status) == Ev("emit", status, 0, 0)

IsEv(x, e) == x.ev = e
IsNotify(x, m) == x.ev = "notify" /\ x.msg = m
IsReason(x) == IsNotify(x, "crash") \/ IsNotify(x, "scheduled")

\* ------------------------------------------------------- WatchdogWorker
\* A worker: the fields of the object (config, stop_requested), where its thread
\* is (pc, sleep_left), the locals of run() and _perform_restart while they are
\* in scope, and what it did: emitted (status_changed), log (since its last loop
\* test), warnings (since cycle_start was last set), last_elapsed (elapsed at the
\* previous tick of this cycle), prev_poll_count (what its previous poll read),
\* kill_ok and join_ok (what the attempt's kill and click returned), tried (the
\* strategies that click went through), fresh_count (the latest count was read
\* after cycle_start was last set).  webhook_urls
\* is webhook_manager.webhook_urls and manual_coord is ui_automation.manual_coord.
NoWorker ==
    [pc |-> "none", stop_requested |-> FALSE, config |-> NoConfig,
     webhook_urls |-> << >>, manual_coord |-> NoCoord, sleep_left |-> 0,
     cycle_start_age |-> 0, warning_sent |-> FALSE, last_roblox_count |-> 0,
     current_count |-> 0, attempt |-> 0, reason |-> "", emitted |-> << >>, log |-> << >>,
     warnings |-> 0, last_elapsed |-> -1, prev_poll_count |-> 0, kill_ok |-> TRUE,
     join_ok |-> TRUE, tried |-> << >>, fresh_count |-> FALSE]

\* WatchdogWorker.__init__
NewWorker(c) ==
    [NoWorker EXCEPT !.config = c, !.webhook_urls = SelectSeq(Webhooks(c), NonBlank),
                     !.manual_coord = c.button_coord, !.pc = "run"]

IsRunning(w) == worker[w].pc \notin {"none", "done"}
InRestart(w) == worker[w].pc \in {"settle", "verify"}

IntervalSeconds(r) == r.config.interval_min * 60

\* line 421
CrashDetectedAboveTwo(cur, last) == cur = 1 /\ last > 2

CrashDetected(cur, last) == cur = 1 /\ last > 1

\* line 438
WarningDueAgain(sent, elapsed, interval_seconds) ==
    elapsed >= interval_seconds - WARNING_OFFSET

WarningDueAfterInterval(sent, elapsed, interval_seconds) ==
    ~sent /\ elapsed >= interval_seconds + WARNING_OFFSET

WarningDueStrictly(sent, elapsed, interval_seconds) ==
    ~sent /\ elapsed > interval_seconds - WARNING_OFFSET

WarningDue(sent, elapsed, interval_seconds) ==
    ~sent /\ elapsed >= interval_seconds - WARNING_OFFSET

\* line 444
ScheduledDueLater(elapsed, interval_seconds) == elapsed > interval_seconds

ScheduledDue(elapsed, interval_seconds) == elapsed >= interval_seconds

\* line 382
RestartVerifiedAboveOne(roblox_count) == roblox_count > 1

RestartVerified(roblox_count) == roblox_count > 0

\* line 390
RetryAfterEveryFailure(r) == r.attempt <= MAX_RETRIES

RetryAllowed(r) == r.attempt < MAX_RETRIES

\* line 373: range(1, MAX_RETRIES + 1) has a next value
MoreAttemptsOneTooMany(r) == r.attempt <= MAX_RETRIES

MoreAttemptsUnlessStopped(r) == r.attempt + 1 <= MAX_RETRIES /\ ~r.stop_requested

MoreAttempts(r) == r.attempt + 1 <= MAX_RETRIES

\* lines 427 and 450: cycle_start = datetime.now()
StaleCycleStart(age) == age

FreshCycleStart(age) == 0

\* line 430
NextLastCountKept(cur, last) == last

NextLastCount(cur, last) == cur

\* lines 396-398: what follows the text of failure_msg
MentionAlways(ping_id) == <<" <@">> \o ping_id \o <<">">>

FailureMention(ping_id) == IF ping_id # << >> THEN <<" <@">> \o ping_id \o <<">">> ELSE << >>

\* line 413, _is_stop_requested
StopSeenAtLoopTest(r) == r.stop_requested

\* line 416, _is_stop_requested
StopNotCheckedAfterSleep(r) == FALSE

StopSeenAfterSleep(r) == r.stop_requested

\* UIAutomation.click_join_server_button: the strategies tried, each with its
\* outcome, then what the method returns
ClickBothStrategies(coord, uia_ok, coord_ok) ==
    IF Truthy(coord)
    THEN <<<<"uia", uia_ok>>, <<"coord", coord_ok>>, <<"return", uia_ok \/ coord_ok>>>>
    ELSE <<<<"uia", uia_ok>>, <<"return", uia_ok>>>>

ClickJoinServerButton(coord, uia_ok, coord_ok) ==
    IF uia_ok
    THEN <<<<"uia", TRUE>>, <<"return", TRUE>>>>
    ELSE IF Truthy(coord)
         THEN <<<<"uia", FALSE>>, <<"coord", coord_ok>>, <<"return", coord_ok>>>>
         ELSE <<<<"uia", FALSE>>, <<"return", FALSE>>>>

Returned(tried) == tried[Len(tried)][2]

\* lines 298 and 325: the coordinate the click uses
JoinCoordOfConfig(r) == r.config.button_coord

JoinCoord(r) == r.manual_coord

Notify(r, m, n, mention) == SendNotification(r.webhook_urls, m, n, mention)

\* run() returns: the thread has finished and the locals are gone
RunReturnsSilently(r, status) ==
    [NoWorker EXCEPT !.pc = "done", !.config = r.config, !.stop_requested = r.stop_requested,
                     !.webhook_urls = r.webhook_urls, !.manual_coord = r.manual_coord,
                     !.log = r.log]

RunReturns(r, status) ==
    [NoWorker EXCEPT !.pc = "done", !.config = r.config, !.stop_requested = r.stop_requested,
                     !.webhook_urls = r.webhook_urls, !.manual_coord = r.manual_coord,
                     !.emitted = Append(r.emitted, status),
                     !.log = Append(r.log, Emit(status))]

\* _perform_restart returns: its locals are gone
RestartReturns(r, ok) ==
    [r EXCEPT !.attempt = 0, !.reason = "", !.kill_ok = TRUE, !.join_ok = TRUE,
              !.tried = << >>,
              !.log = Append(@, Ev("ret", "", IF ok THEN 1 ELSE 0, 0))]

\* _perform_restart, lines 364-371: up to the first sleep
BeginRestart(r, why, kill_ok) ==
    [r EXCEPT !.reason = why, !.attempt = 1,
              !.log = @ \o Notify(r, why, 0, << >>) \o <<Ev("kill", "", 0, 0)>>,
              !.kill_ok = kill_ok, !.sleep_left = SETTLE_DELAY, !.pc = "settle"]

\* run(), lines 427-428 and 450-451
ResetCycle(r) ==
    LET fresh == [r EXCEPT !.cycle_start_age = FreshCycleStart(@), !.warning_sent = FALSE,
                           !.warnings = 0, !.last_elapsed = -1, !.fresh_count = FALSE]
    IN  [fresh EXCEPT !.log = Append(@, Ev("cycle_reset", "", fresh.cycle_start_age,
                                           IF fresh.warning_sent THEN 1 ELSE 0))]

\* run(), lines 438-442
SendWarning(r) ==
    [r EXCEPT !.log = @ \o Notify(r, "warning", 0, << >>), !.warning_sent = TRUE,
              !.warnings = @ + 1]

\* run(), lines 430-451: the rest of a tick after the crash test
TickTail(r, kill_ok) ==
    LET elapsed == r.cycle_start_age
        r1 == [r EXCEPT !.last_roblox_count = NextLastCount(r.current_count, @),
                        !.log = Append(@, Ev("elapsed", "", elapsed, r.last_elapsed)),
                        !.last_elapsed = elapsed]
        r2 == IF WarningDue(r1.warning_sent, elapsed, IntervalSeconds(r1))
              THEN SendWarning(r1) ELSE r1
    IN  IF ScheduledDue(elapsed, IntervalSeconds(r2))
        THEN BeginRestart(r2, "scheduled", kill_ok)
        ELSE [r2 EXCEPT !.pc = "loop"]

\* run(), lines 406-411
RunBegin(w) ==
    /\ worker[w].pc = "run"
    /\ \E c \in Counts :
        worker' = [worker EXCEPT ![w] =
            [@ EXCEPT !.emitted = <<StatusRunning>>, !.log = <<Emit(StatusRunning)>>,
                      !.cycle_start_age = 0, !.warning_sent = FALSE,
                      !.last_roblox_count = c, !.prev_poll_count = c,
                      !.fresh_count = TRUE, !.pc = "loop"]]
    /\ UNCHANGED <<uiVars, capVars, budgetVars>>

\* run(), lines 413-414 (and 453-454): the loop test, then into the tick's sleep
LoopTest(w) ==
    /\ worker[w].pc = "loop"
    /\ IF StopSeenAtLoopTest(worker[w])
       THEN /\ worker' = [worker EXCEPT ![w] =
                            RunReturns([@ EXCEPT !.log = << >>], StatusStopped)]
            /\ UNCHANGED ticks_left
       ELSE /\ ticks_left # 0
            /\ ticks_left' = IF ticks_left > 0 THEN ticks_left - 1 ELSE ticks_left
            /\ worker' = [worker EXCEPT ![w] =
                            [@ EXCEPT !.log = << >>, !.sleep_left = MONITOR_INTERVAL,
                                      !.pc = "sleep"]]
    /\ UNCHANGED <<uiVars, capVars, starts_left>>

\* run(), lines 416-417 (and 453-454): the stop check after the tick's sleep
AfterSleep(w) ==
    /\ worker[w].pc = "sleep"
    /\ worker[w].sleep_left = 0
    /\ worker' = [worker EXCEPT ![w] =
            IF StopSeenAfterSleep(@)
            THEN RunReturns(@, StatusStopped)
            ELSE [@ EXCEPT !.pc = "poll"]]
    /\ UNCHANGED <<uiVars, capVars, budgetVars>>

\* run(), lines 419-451: the tick's poll and what follows, up to the next loop
\* test or to the first sleep of a restart
Tick(w) ==
    /\ worker[w].pc = "poll"
    /\ \E c \in Counts, kill_ok \in BOOLEAN :
        LET r == [worker[w] EXCEPT !.current_count = c, !.prev_poll_count = c,
                      !.fresh_count = TRUE,
                      !.log = Append(@, Ev("count", "", c, worker[w].prev_poll_count))]
        IN  worker' = [worker EXCEPT ![w] =
                IF CrashDetected(c, r.last_roblox_count)
                THEN BeginRestart(r, "crash", kill_ok)
                ELSE TickTail(r, kill_ok)]
    /\ UNCHANGED <<uiVars, capVars, budgetVars>>

\* _perform_restart, lines 374-379: an attempt's click, then into the verify sleep
Click(w) ==
    /\ worker[w].pc = "settle"
    /\ worker[w].sleep_left = 0
    /\ \E uia_ok \in BOOLEAN, coord_ok \in BOOLEAN :
        LET r == worker[w]
            tried == ClickJoinServerButton(JoinCoord(r), uia_ok, coord_ok)
        IN  worker' = [worker EXCEPT ![w] =
                [r EXCEPT !.join_ok = Returned(tried), !.tried = tried,
                          !.log = Append(@, Ev("join", "", r.attempt, 0)),
                          !.sleep_left = VERIFY_DELAY, !.pc = "verify"]]
    /\ UNCHANGED <<uiVars, capVars, budgetVars>>

\* _perform_restart returned False: run(), lines 424-425 and 447-448
FailedButPollsOn(r) ==
    [r EXCEPT !.emitted = Append(@, StatusFailed), !.log = Append(@, Emit(StatusFailed)),
              !.pc = "loop"]

AfterFailedRestart(r) == RunReturns(r, StatusFailed)

\* _perform_restart returned True: run(), lines 427-451 after a crash restart,
\* lines 450-451 after a scheduled one
AfterRestart(r, why, kill_ok) ==
    IF why = "crash"
    THEN TickTail(ResetCycle(r), kill_ok)
    ELSE [ResetCycle(r) EXCEPT !.pc = "loop"]

\* _perform_restart, lines 381-402: an attempt's verification and what follows,
\* up to the next sleep
Verify(w) ==
    /\ worker[w].pc = "verify"
    /\ worker[w].sleep_left = 0
    /\ \E c \in Counts, kill_ok \in BOOLEAN :
        LET r == [worker[w] EXCEPT !.log = Append(@, Ev("verify", "", c, worker[w].attempt))]
            capped == IF r.config.limit_strap
                      THEN [r EXCEPT !.log = Append(@, Ev("limit_strap", "", 0, 0))]
                      ELSE r
            retried == IF RetryAllowed(r)
                       THEN [r EXCEPT !.log = @ \o Notify(r, "retry", r.attempt, << >>)
                                                \o <<Ev("kill", "", 0, 0)>>,
                                      !.kill_ok = kill_ok, !.sleep_left = SETTLE_DELAY]
                       ELSE r
            failed == [retried EXCEPT !.log = @ \o Notify(r, "failure", MAX_RETRIES,
                                                     FailureMention(r.config.ping_id))]
        IN  worker' = [worker EXCEPT ![w] =
                IF RestartVerified(c)
                THEN AfterRestart(RestartReturns(capped, TRUE), r.reason, kill_ok)
                ELSE IF MoreAttempts(r)
                     THEN [retried EXCEPT !.attempt = @ + 1, !.join_ok = TRUE,
                                          !.tried = << >>, !.pc = "settle"]
                     ELSE AfterFailedRestart(RestartReturns(failed, FALSE))]
    /\ UNCHANGED <<uiVars, capVars, budgetVars>>

\* ------------------------------------------------------- ProcessManager
ProcessNames == {
    <<"Roblox", "Player", "Beta", ".exe">>,
    <<"Blox", "strap", ".exe">>,
    <<"Fish", "Strap", ".EXE">>,
    <<"strap", ".exe", ".bak">> }

\* psutil.process_iter(['name', 'create_time', 'pid']) with n processes
Listings(n) ==
    {l \in [1..n -> [pid : 1..n, name : ProcessNames, create_time : 1..MaxCreateTime]] :
        \A i \in 1..n : l[i].pid = i}

\* line 195
IsTarget(proc) == Lower(proc.name) = ROBLOX_PROCESS

\* lines 228-229
IsHelper(proc) == EndsWith(Lower(proc.name), STRAP_SUFFIX)

\* list.sort(key=create_time) is stable: x goes behind every entry not later than it
RECURSIVE InsertByCreateTime(_, _)
InsertByCreateTime(x, sorted) ==
    IF sorted = << >> \/ x.create_time < Head(sorted).create_time
    THEN <<x>> \o sorted
    ELSE <<Head(sorted)>> \o InsertByCreateTime(x, Tail(sorted))

RECURSIVE SortByCreateTime(_)
SortByCreateTime(l) ==
    IF l = << >> THEN << >>
    ELSE InsertByCreateTime(l[Len(l)], SortByCreateTime(SubSeq(l, 1, Len(l) - 1)))

\* line 238: helpers[1:]
ExcessKeepsNewest(helpers) == SubSeq(helpers, 1, Len(helpers) - 1)

Excess(helpers) == Tail(helpers)

KillOutcomes == {"killed", "NoSuchProcess", "AccessDenied"}

\* limit_strap_processes
LimitStrapProcesses ==
    /\ cap_result = ""
    /\ LET helpers == SelectSeq(procs, IsHelper)
           excess == Excess(SortByCreateTime(helpers))
       IN  IF Len(helpers) <= 1
           THEN UNCHANGED kill_calls
           ELSE \E outcome \in [1..Len(excess) -> KillOutcomes] :
                   kill_calls' = [i \in 1..Len(excess) |-> <<excess[i].pid, outcome[i]>>]
    /\ cap_result' = "True"
    /\ UNCHANGED <<worker, uiVars, budgetVars, procs, saved, load_result, send_call>>

\* ------------------------------------------------------ KramoMainWindow

\* What the spinbox, the text fields and the helper box hold when a handler
\* reads them: the user may have changed them at any time before
Form(i, w1, w2, p, l) ==
    [interval_min |-> i, webhook1 |-> w1, webhook2 |-> w2, ping_id |-> p, limit_strap |-> l]

Forms == {
    Form(1, Hook1 \o <<" ">>, << >>, << >>, FALSE),
    Form(2, Hook1, <<" ">> \o Hook2, Ping \o <<" ">>, TRUE),
    Form(1, BadHook, Hook2, << >>, FALSE),
    Form(2, <<" ">>, << >>, Ping, TRUE) }

NotSet == <<"Not set">>

\* str(coord), lines 611 and 731
StrCoord(coord) ==
    IF coord.kind = "tuple"
    THEN <<"(", ToString(coord.x), ", ", ToString(coord.y), ")">>
    ELSE <<"[", ToString(coord.x), ", ", ToString(coord.y), "]">>

\* _load_config_to_ui, lines 609-614: the text of the coordinate label
LabelFor(c) == IF Truthy(c.button_coord) THEN StrCoord(c.button_coord) ELSE NotSet

\* _collect_config, lines 637-647: None is returned, or this is button_coord
ManualCoordMissing == manual_checked /\ coord_label = NotSet

ButtonCoord == IF manual_checked THEN config.button_coord ELSE NoCoord

\* _collect_config on the widgets, the label and self.config; NoConfig is None
CollectConfig(f) ==
    LET c == AppConfig(f.interval_min, Strip(f.webhook1), Strip(f.webhook2), Strip(f.ping_id),
                       f.limit_strap, ButtonCoord)
    IN  IF ManualCoordMissing \/ PostInitRaises(c) \/ ~HasValidWebhooks(c)
        THEN NoConfig ELSE c

FreeWorker ==
    CHOOSE w \in Workers : worker[w].pc = "none" /\ \A v \in Workers : worker[v].pc = "none" => w <= v

\* line 673
AlreadyRunning == watchdog # 0 /\ IsRunning(watchdog)

\* _start_monitoring
StartMonitoring ==
    /\ ui_pc = "idle"
    /\ start_btn
    /\ starts_left > 0
    /\ \E f \in Forms, save_ok \in BOOLEAN :
        LET c == CollectConfig(f)
        IN  IF AlreadyRunning \/ c = NoConfig
            THEN UNCHANGED <<worker, uiVars, starts_left>>
            ELSE /\ config' = c
                 /\ IF save_ok
                    THEN /\ config_file' = SaveConfig(c)
                         /\ watchdog' = FreeWorker
                         /\ shared' = FreeWorker
                         /\ worker' = [worker EXCEPT ![FreeWorker] = NewWorker(c)]
                         /\ starts_left' = starts_left - 1
                         /\ start_btn' = FALSE
                         /\ stop_btn' = TRUE
                    ELSE /\ shared' = 0
                         /\ UNCHANGED <<config_file, watchdog, worker, starts_left,
                                        start_btn, stop_btn>>
                 /\ UNCHANGED <<ui_pc, wait_left, coord_label, manual_checked, statusVars>>
    /\ UNCHANGED <<capVars, ticks_left>>

\* The user clicks the coordinates box: _toggle_manual_coord shows or hides the
\* coordinate row
ToggleManualCoord ==
    /\ ui_pc = "idle"
    /\ manual_checked' = ~manual_checked
    /\ UNCHANGED <<worker, watchdog, ui_pc, wait_left, start_btn, stop_btn, config, shared,
                   coord_label, config_file, statusVars, capVars, budgetVars>>

\* _do_capture_coordinates, 3 s after a click on the capture button (the box was
\* checked then and may have been toggled since): pyautogui.position() gives a
\* point, or raises
DoCaptureCoordinates ==
    /\ ui_pc = "idle"
    /\ \E coord \in {Coord}, position_ok \in BOOLEAN :
        IF position_ok
        THEN /\ config' = [config EXCEPT !.button_coord = coord]
             /\ worker' = IF shared # 0
                           THEN [worker EXCEPT ![shared].config.button_coord = coord]
                           ELSE worker
             /\ coord_label' = StrCoord(coord)
        ELSE UNCHANGED <<config, worker, coord_label>>
    /\ UNCHANGED <<watchdog, ui_pc, wait_left, start_btn, stop_btn, shared, config_file,
                   manual_checked, statusVars, capVars, budgetVars>>

\* _save_settings
SaveSettings ==
    /\ ui_pc = "idle"
    /\ \E f \in Forms, save_ok \in BOOLEAN :
        LET c == CollectConfig(f)
        IN  IF c = NoConfig
            THEN UNCHANGED <<config, shared, config_file>>
            ELSE /\ config' = c
                 /\ shared' = 0
                 /\ config_file' = IF save_ok THEN SaveConfig(c) ELSE config_file
    /\ UNCHANGED <<worker, watchdog, ui_pc, wait_left, start_btn, stop_btn, coord_label,
                   manual_checked, statusVars, capVars, budgetVars>>

\* _load_settings: load_config, then _load_config_to_ui
LoadSettings ==
    /\ ui_pc = "idle"
    /\ config' = LoadConfig(config_file).value
    /\ shared' = 0
    /\ coord_label' = LabelFor(config')
    /\ manual_checked' = Truthy(config'.button_coord)
    /\ UNCHANGED <<worker, watchdog, ui_pc, wait_left, start_btn, stop_btn, config_file,
                   statusVars, capVars, budgetVars>>

\* _update_status, lines 760-763
ShowStatus(status) == status_label' = status

\* _stop_monitoring, lines 707-714
FinishStop ==
    /\ start_btn' = TRUE
    /\ stop_btn' = FALSE
    /\ ui_pc' = "idle"
    /\ wait_left' = 0
    /\ ShowStatus(StatusStopped)
    /\ UNCHANGED <<cfgVars, delivered>>

\* The event loop runs the slot of the next status_changed signal of worker w
\* (a queued connection: the signal comes from the worker's thread)
UpdateStatus(w) ==
    /\ ui_pc = "idle"
    /\ delivered[w] < Len(worker[w].emitted)
    /\ ShowStatus(worker[w].emitted[delivered[w] + 1])
    /\ delivered' = [delivered EXCEPT ![w] = @ + 1]
    /\ UNCHANGED <<worker, watchdog, ui_pc, wait_left, start_btn, stop_btn, cfgVars,
                   capVars, budgetVars>>

\* WatchdogWorker.stop; the log notes when the request arrived
Stop(r) ==
    [r EXCEPT !.stop_requested = TRUE,
              !.log = IF r.pc \in {"none", "done"} THEN @ ELSE Append(@, Ev("stop", "", 0, 0))]

\* _stop_monitoring, lines 701-704: stop(), then into wait(5000)
StopMonitoring ==
    /\ ui_pc = "idle"
    /\ stop_btn
    /\ IF watchdog # 0
       THEN /\ worker' = [worker EXCEPT ![watchdog] = Stop(@)]
            /\ ui_pc' = "waiting"
            /\ wait_left' = STOP_WAIT
            /\ status_label' = "Stopping..."
            /\ UNCHANGED <<watchdog, start_btn, stop_btn, cfgVars, delivered>>
       ELSE FinishStop /\ UNCHANGED <<watchdog, worker>>
    /\ UNCHANGED <<capVars, budgetVars>>

\* line 704: wait(5000) returns when the thread has finished or 5 s have passed
WaitReturns == ~IsRunning(watchdog) \/ wait_left = 0

\* _stop_monitoring, lines 704-714
StopReturns ==
    /\ ui_pc = "waiting"
    /\ WaitReturns
    /\ watchdog' = 0
    /\ FinishStop
    /\ UNCHANGED <<worker, capVars, budgetVars>>

\* ------------------------------------------------------------------ time
Sleeping(w) == worker[w].pc \in {"sleep", "settle", "verify"}

Timers == {worker[w].sleep_left : w \in {v \in Workers : Sleeping(v)}}
            \cup (IF ui_pc = "waiting" THEN {wait_left} ELSE {})

Min(S) == CHOOSE x \in S : \A y \in S : x <= y

\* Time passes when every thread is in a sleep or a wait that has time left
Advance ==
    /\ Timers # {}
    /\ \A w \in Workers : IsRunning(w) => Sleeping(w)
    /\ \A t \in Timers : t > 0
    /\ ui_pc = "waiting" => IsRunning(watchdog)
    /\ LET d == Min(Timers)
       IN  /\ worker' = [w \in Workers |->
                IF Sleeping(w)
                THEN [worker[w] EXCEPT !.sleep_left = @ - d, !.cycle_start_age = @ + d]
                ELSE worker[w]]
           /\ wait_left' = IF ui_pc = "waiting" THEN wait_left - d ELSE wait_left
    /\ UNCHANGED <<watchdog, ui_pc, start_btn, stop_btn, cfgVars, statusVars, capVars,
                   budgetVars>>

\* ------------------------------------------------------- specification
\* What kramo_config.json may hold when the program starts
Files == {
    NoFile("absent"), NoFile("unreadable"), NoFile("notjson"), NoFile("notdict"),
    File("json", AppConfig(1, Hook1, << >>, << >>, FALSE, NoCoord), FALSE),
    File("json", AppConfig(2, Hook1, Hook2, Ping, TRUE, Coord), FALSE),
    File("json", AppConfig(28, << >>, << >>, << >>, FALSE, Coord2), FALSE),
    File("json", AppConfig(0, Hook1, << >>, << >>, FALSE, NoCoord), FALSE),
    File("json", AppConfig(1000, Hook1, << >>, Ping, FALSE, Coord), FALSE),
    File("json", AppConfig(1, Hook1, BadHook, << >>, TRUE, NoCoord), FALSE),
    File("json", AppConfig(2, Hook1, Hook2, Ping, TRUE, Coord), TRUE),
    File("json", AppConfig(2, << >>, Hook2, << >>, FALSE, Pair("list3", 1, 2)), FALSE) }

\* No file yet, or the file of an earlier session without or with a coordinate
SomeFiles == {
    NoFile("absent"),
    File("json", AppConfig(1, Hook1, << >>, << >>, FALSE, NoCoord), FALSE),
    File("json", AppConfig(2, Hook1, Hook2, Ping, TRUE, Coord), FALSE) }

Program ==
    /\ worker = [w \in Workers |-> NoWorker]
    /\ watchdog = 0
    /\ ui_pc = "idle"
    /\ wait_left = 0
    /\ start_btn = TRUE
    /\ stop_btn = FALSE
    /\ config = LoadConfig(config_file).value
    /\ shared = 0
    /\ coord_label = LabelFor(config)
    /\ manual_checked = Truthy(config.button_coord)
    /\ status_label = "Ready"
    /\ delivered = [w \in Workers |-> 0]
    /\ procs = << >>
    /\ kill_calls = << >>
    /\ cap_result = ""
    /\ saved = NoConfig
    /\ load_result = NotCalled
    /\ send_call = NotSent

\* One watchdog run, started and stopped from the surface
Init ==
    /\ config_file \in Files
    /\ Program
    /\ starts_left = 1
    /\ ticks_left = -1

\* MaxWorkers runs started and stopped from the surface, SurfaceTicks poll ticks
SurfaceInit ==
    /\ config_file \in SomeFiles
    /\ Program
    /\ starts_left = MaxWorkers
    /\ ticks_left = SurfaceTicks

Next ==
    \/ \E w \in Workers : RunBegin(w)
    \/ \E w \in Workers : LoopTest(w)
    \/ \E w \in Workers : AfterSleep(w)
    \/ \E w \in Workers : Tick(w)
    \/ \E w \in Workers : Click(w)
    \/ \E w \in Workers : Verify(w)
    \/ StartMonitoring
    \/ StopMonitoring
    \/ StopReturns
    \/ Advance

Spec == Init /\ [][Next]_vars

SurfaceSpec == SurfaceInit /\ [][Next]_vars

\* The run of Spec together with the slot of status_changed
StatusNext == Next \/ \E w \in Workers : UpdateStatus(w)

StatusSpec == Init /\ [][StatusNext]_vars

\* A step of worker w's thread
WorkerStep(w) ==
    RunBegin(w) \/ LoopTest(w) \/ AfterSleep(w) \/ Tick(w) \/ Click(w) \/ Verify(w)

\* The same run where every thread that can take a step gets to take it, time
\* passes while all threads sleep, and wait(5000) returns
FairSpec ==
    /\ Init
    /\ [][Next]_vars
    /\ \A w \in Workers : WF_vars(WorkerStep(w))
    /\ WF_vars(Advance)
    /\ WF_vars(StopReturns)

\* One watchdog run of ConfigTicks poll ticks, with the settings handlers of the
\* surface at work before, during and after it
ConfigInit ==
    /\ config_file \in SomeFiles
    /\ Program
    /\ starts_left = 1
    /\ ticks_left = ConfigTicks

ConfigNext ==
    \/ Next
    \/ ToggleManualCoord
    \/ DoCaptureCoordinates
    \/ SaveSettings
    \/ LoadSettings

ConfigSpec == ConfigInit /\ [][ConfigNext]_vars

\* limit_strap_processes on every listing of up to MaxProcs processes
CapInit ==
    /\ worker = [w \in Workers |-> NoWorker]
    /\ watchdog = 0
    /\ ui_pc = "idle"
    /\ wait_left = 0
    /\ start_btn = TRUE
    /\ stop_btn = FALSE
    /\ config_file = NoFile("absent")
    /\ config = DefaultConfig
    /\ shared = 0
    /\ coord_label = NotSet
    /\ manual_checked = FALSE
    /\ status_label = "Ready"
    /\ delivered = [w \in Workers |-> 0]
    /\ starts_left = 0
    /\ ticks_left = 0
    /\ procs \in UNION {Listings(n) : n \in 0..MaxProcs}
    /\ kill_calls = << >>
    /\ cap_result = ""
    /\ saved = NoConfig
    /\ load_result = NotCalled
    /\ send_call = NotSent

CapNext == LimitStrapProcesses

\* save_config and load_config on every file of Files and every valid configuration
FileInit ==
    /\ config_file \in Files
    /\ worker = [w \in Workers |-> NoWorker]
    /\ watchdog = 0
    /\ ui_pc = "idle"
    /\ wait_left = 0
    /\ start_btn = TRUE
    /\ stop_btn = FALSE
    /\ config = DefaultConfig
    /\ shared = 0
    /\ coord_label = NotSet
    /\ manual_checked = FALSE
    /\ status_label = "Ready"
    /\ delivered = [w \in Workers |-> 0]
    /\ starts_left = 0
    /\ ticks_left = 0
    /\ procs = << >>
    /\ kill_calls = << >>
    /\ cap_result = ""
    /\ saved = NoConfig
    /\ load_result = NotCalled
    /\ send_call = NotSent

FileNext == SaveConfigCall \/ LoadConfigCall

\* send_notification for every list of endpoints and every pattern of failures
SendInit ==
    /\ FileInit
    /\ config_file = NoFile("absent")

SendNext == SendNotificationCall

SendSpec == SendInit /\ [][SendNext]_vars

FileSpec == FileInit /\ [][FileNext]_vars

CapSpec == CapInit /\ [][CapNext]_vars

\* ------------------------------------------------------------- properties
Log(w) == worker[w].log

NotStopMark(x) == x.ev # "stop"

ReasonAt(L) == {i \in 1..Len(L) : IsReason(L[i])}

\* Where the restart sequence begun at L[i] ends in L: at its "ret", or at the
\* end of L while it is still running
RestartEnd(L, i) ==
    LET rets == {j \in i..Len(L) : L[j].ev = "ret"}
    IN  IF rets = {} THEN Len(L) ELSE Min(rets)

\* The steps of the restart sequence begun at L[i]
Restart(L, i) == SelectSeq(SubSeq(L, i, RestartEnd(L, i)), NotStopMark)

Count(S, e) == Cardinality({j \in 1..Len(S) : S[j].ev = e})

\* C1: a call of _perform_restart makes at most 3 join attempts, returns True at
\* the first verification that counts more than 0 processes (the last step before
\* it returns), and returns False only after the 3rd verification counted 0.
C1_BoundedRetries ==
    \A w \in Workers : \A i \in ReasonAt(Log(w)) :
        LET S == Restart(Log(w), i)
            verifies == {j \in 1..Len(S) : S[j].ev = "verify"}
            good == {j \in verifies : S[j].n > 0}
        IN  /\ Count(S, "join") <= MAX_RETRIES
            /\ \A j \in good : \A k \in j + 1..Len(S) : S[k].ev \notin {"join", "verify"}
            /\ \A j \in good : S[Len(S)] = Ev("ret", "", 1, 0)
            /\ S[Len(S)] = Ev("ret", "", 1, 0) => good # {}
            /\ S[Len(S)] = Ev("ret", "", 0, 0) =>
                    /\ good = {}
                    /\ Count(S, "join") = MAX_RETRIES
                    /\ {S[j].k : j \in verifies} = 1..MAX_RETRIES

C1_SecondAttemptSucceeds ==
    \E w \in Workers : \E j \in 1..Len(Log(w)) :
        /\ Log(w)[j].ev = "verify" /\ Log(w)[j].k = 2 /\ Log(w)[j].n > 0
        /\ \E k \in j + 1..Len(Log(w)) : Log(w)[k] = Ev("ret", "", 1, 0)

\* What the worker did since its last loop test, without the marks of stop()
Done(w) == SelectSeq(Log(w), NotStopMark)

WarnAt(r) == IntervalSeconds(r) - WARNING_OFFSET

\* The worker is still in the cycle in which it took step j of L
SameCycle(r, L, j) ==
    r.pc # "done" /\ \A k \in j + 1..Len(L) : L[k].ev # "cycle_reset"

\* C2: in a cycle the warning goes out exactly once, at the tick whose elapsed
\* time is the first of the cycle to be at least I - W: it follows that tick's
\* reading of the elapsed time, no tick below I - W sends it, no later tick of
\* the cycle sends it again, and warning_sent is set exactly when it was sent.
C2_WarningOncePerCycle ==
    \A w \in Workers :
        LET r == worker[w]
            L == Done(w)
        IN  /\ r.warnings <= 1
            /\ r.warning_sent <=> r.warnings = 1
            /\ \A j \in 1..Len(L) :
                 /\ IsNotify(L[j], "warning") =>
                        /\ j > 1 /\ L[j - 1].ev = "elapsed"
                        /\ L[j - 1].n >= WarnAt(r) /\ L[j - 1].k < WarnAt(r)
                 /\ (L[j].ev = "elapsed" /\ L[j].n >= WarnAt(r) /\ L[j].k < WarnAt(r)) =>
                        (j < Len(L) /\ IsNotify(L[j + 1], "warning"))
                 /\ (L[j].ev = "elapsed" /\ SameCycle(r, L, j)) =>
                        r.warnings = (IF L[j].n >= WarnAt(r) THEN 1 ELSE 0)

C2_WarningSentAtOffset ==
    \E w \in Workers :
        /\ worker[w].pc = "loop" /\ WarnAt(worker[w]) > 0
        /\ Len(Done(w)) = 3
        /\ Done(w)[2] = Ev("elapsed", "", WarnAt(worker[w]), WarnAt(worker[w]) - MONITOR_INTERVAL)
        /\ IsNotify(Done(w)[3], "warning")

\* C3: a tick that reads a count of 1 when the previous tick read more than 1
\* starts the crash restart at once: the crash notification and the kill of the
\* target processes are the very next steps of that tick.
C3_CrashRestartsOnThatTick ==
    \A w \in Workers :
        LET L == Done(w)
        IN  \A j \in 1..Len(L) :
                (L[j].ev = "count" /\ L[j].n = 1 /\ L[j].k > 1) =>
                    /\ Len(L) >= j + 2
                    /\ IsNotify(L[j + 1], "crash")
                    /\ L[j + 2].ev = "kill"

C3_CrashSeen ==
    \E w \in Workers :
        /\ worker[w].pc = "settle" /\ worker[w].reason = "crash"
        /\ Len(Done(w)) = 3
        /\ Done(w)[1] = Ev("count", "", 1, 2)
        /\ IsNotify(Done(w)[2], "crash")

\* C4: a tick runs at most one restart sequence, and a tick whose count fell
\* from more than 1 to 1 runs the crash restart only, never a scheduled one.
C4_OneRestartPerTick ==
    \A w \in Workers :
        LET L == Done(w)
        IN  /\ Cardinality(ReasonAt(L)) <= 1
            /\ Count(L, "ret") <= 1
            /\ (\E j \in 1..Len(L) : L[j].ev = "count" /\ L[j].n = 1 /\ L[j].k > 1) =>
                    \A i \in ReasonAt(L) : IsNotify(L[i], "crash")

C4_CrashRestartThenNextTick ==
    \E w \in Workers :
        LET L == Done(w)
        IN  /\ worker[w].pc = "loop"
            /\ Len(L) >= 2 /\ L[1] = Ev("count", "", 1, 2) /\ IsNotify(L[2], "crash")
            /\ \E j \in 1..Len(L) : L[j] = Ev("ret", "", 1, 0)
            /\ L[Len(L)].ev = "elapsed"

Range(S) == {S[j] : j \in 1..Len(S)}

Unflagged(r) == [r EXCEPT !.stop_requested = FALSE]

\* C5: when _perform_restart returns False the run emits Failed and is over: it
\* has emitted Running and Failed and never Stopped, Failed is its last step, a
\* finished run takes no further step (stop() may still set its flag), and a
\* watchdog only ever starts running inside _start_monitoring.
C5_FailedIsFinal ==
    [][\A w \in Workers :
        LET r == worker[w]
            r2 == worker'[w]
        IN  /\ (StatusFailed \in Range(r2.emitted) \/ Ev("ret", "", 0, 0) \in Range(r2.log)) =>
                    /\ r2.pc = "done"
                    /\ r2.emitted = <<StatusRunning, StatusFailed>>
                    /\ r2.log[Len(r2.log)] = Emit(StatusFailed)
            /\ r.pc = "done" => Unflagged(r2) = Unflagged(r)
            /\ (r.pc = "none" /\ r2.pc # "none") =>
                    /\ ui_pc = "idle" /\ start_btn
                    /\ watchdog' = w /\ r2 = NewWorker(r2.config)
      ]_vars

C5_Failed ==
    \E w \in Workers :
        /\ worker[w].pc = "done"
        /\ worker[w].emitted = <<StatusRunning, StatusFailed>>
        /\ Ev("ret", "", 0, 0) \in Range(Log(w))

FailureAt(L) == {j \in 1..Len(L) : IsNotify(L[j], "failure")}

\* C6: a restart sequence that used up its 3 attempts sends the final failure
\* notification exactly once, to every configured endpoint, with the mention
\* exactly when a ping id is configured, as its last step before it returns
\* False and so before Failed is emitted; no other restart sequence sends it.
C6_OneFailureNotification ==
    \A w \in Workers :
        LET r == worker[w]
            L == Done(w)
        IN  /\ Cardinality(FailureAt(L)) <= 1
            /\ \A j \in 1..Len(L) :
                 /\ L[j] = Ev("ret", "", 0, 0) =>
                        /\ j > 1 /\ IsNotify(L[j - 1], "failure")
                        /\ L[j - 1].to = Webhooks(r.config) /\ L[j - 1].to # << >>
                        /\ L[j - 1].mention # << >> <=> r.config.ping_id # << >>
                        /\ L[j - 1].mention # << >> =>
                                L[j - 1].mention = <<" <@">> \o r.config.ping_id \o <<">">>
                 /\ IsNotify(L[j], "failure") =>
                        /\ j < Len(L) /\ L[j + 1] = Ev("ret", "", 0, 0)
                        /\ \E i \in ReasonAt(L) :
                              /\ i < j
                              /\ Count(Restart(L, i), "verify") = MAX_RETRIES
                 /\ L[j] = Emit(StatusFailed) => FailureAt(L) = {j - 2}
                 /\ L[j] = Ev("ret", "", 1, 0) => FailureAt(L) = {}

C6_FailureWithMention ==
    \E w \in Workers : \E j \in FailureAt(Done(w)) :
        /\ Len(Done(w)[j].to) = 2
        /\ Done(w)[j].mention # << >>
        /\ StatusFailed \in Range(worker[w].emitted)

\* The steps of a restart sequence come in the order of the code
InOrder(S) ==
    /\ IsReason(S[1])
    /\ \A j \in 1..Len(S) - 1 :
        LET x == S[j]
            y == S[j + 1]
        IN  /\ IsReason(x) => y.ev = "kill"
            /\ x.ev = "kill" => y.ev = "join"
            /\ x.ev = "join" => y.ev = "verify" /\ y.k = x.n
            /\ (x.ev = "verify" /\ x.n > 0) => y.ev \in {"limit_strap", "ret"}
            /\ (x.ev = "verify" /\ x.n = 0 /\ x.k < MAX_RETRIES) => IsNotify(y, "retry")
            /\ (x.ev = "verify" /\ x.n = 0 /\ x.k = MAX_RETRIES) => IsNotify(y, "failure")
            /\ IsNotify(x, "retry") =>
                    /\ y.ev = "kill"
                    /\ j + 2 <= Len(S) => S[j + 2] = Ev("join", "", x.n + 1, 0)
            /\ x.ev = "limit_strap" => y = Ev("ret", "", 1, 0)
            /\ IsNotify(x, "failure") => y = Ev("ret", "", 0, 0)
            /\ x.ev # "ret"

\* C8: stop() cancels nothing inside _perform_restart: a restart sequence during
\* which the stop flag was set still takes every step in order, and it is over
\* only when a verification counted more than 0 or all 3 attempts were made.
C8_RestartNotCancellable ==
    \A w \in Workers : \A i \in ReasonAt(Log(w)) :
        LET L == Log(w)
            S == Restart(L, i)
            last == S[Len(S)]
        IN  (\E s \in i..RestartEnd(L, i) : L[s].ev = "stop") =>
                /\ InOrder(S)
                /\ ~InRestart(w) => last.ev = "ret"
                /\ last.ev = "ret" =>
                       \/ last.n = 1 /\ \E j \in 1..Len(S) : S[j].ev = "verify" /\ S[j].n > 0
                       \/ last.n = 0 /\ Count(S, "join") = MAX_RETRIES
                                     /\ Count(S, "verify") = MAX_RETRIES

C8_StoppedRestartWentOn ==
    \E w \in Workers : \E i \in ReasonAt(Log(w)) :
        LET L == Log(w)
        IN  /\ Len(L) >= i + 2 /\ L[i + 2].ev = "stop"
            /\ Count(Restart(L, i), "join") = MAX_RETRIES
            /\ L[RestartEnd(L, i)].ev = "ret"

\* C9: a stop check that sees the flag (the loop test, or the check after the
\* sleep) ends the run there: the run reads no count, sends nothing and restarts
\* nothing after it, and the last status it emits is Stopped.
C9_StopEndsTheLoop ==
    [][\A w \in Workers :
        LET r == worker[w]
            r2 == worker'[w]
        IN  (r.stop_requested /\ r.pc \in {"loop", "sleep"} /\ r2.pc # r.pc) =>
                /\ r2.pc = "done"
                /\ r2.emitted = <<StatusRunning, StatusStopped>>
                /\ SelectSeq(r2.log, NotStopMark) = <<Emit(StatusStopped)>>
      ]_vars

C9_StoppedAfterSleep ==
    \E w \in Workers :
        /\ worker[w].pc = "done"
        /\ Log(w) = <<Ev("stop", "", 0, 0), Emit(StatusStopped)>>
        /\ worker[w].emitted = <<StatusRunning, StatusStopped>>

\* C7: whatever the surface does with Start and Stop, at most one watchdog is
\* inside _perform_restart at any time.
C7_OneRestartInFlight == Cardinality({w \in Workers : InRestart(w)}) <= 1

HelperAt == {i \in 1..Len(procs) : IsHelper(procs[i])}

KilledPids == {kill_calls[j][1] : j \in 1..Len(kill_calls)}

\* C10: once limit_strap_processes has returned, with 2 or more helpers listed
\* kill() was called once on every helper but one of earliest creation time,
\* with fewer it was called on nothing, and it was never called on a process
\* that is not a helper, a target least of all.
C10_KeepsEarliestHelper ==
    cap_result # "" =>
        /\ Cardinality(HelperAt) <= 1 => kill_calls = << >>
        /\ Cardinality(HelperAt) >= 2 =>
              /\ Len(kill_calls) = Cardinality(HelperAt) - 1
              /\ \E keep \in HelperAt :
                    /\ \A h \in HelperAt : procs[keep].create_time <= procs[h].create_time
                    /\ KilledPids = {procs[h].pid : h \in HelperAt \ {keep}}
        /\ \A i \in 1..Len(procs) :
              (IsTarget(procs[i]) \/ ~IsHelper(procs[i])) => procs[i].pid \notin KilledPids

C10_ThreeHelpers ==
    /\ cap_result # ""
    /\ Len(procs) = 3 /\ HelperAt = {1, 2, 3}
    /\ procs[2].create_time < procs[3].create_time
    /\ procs[3].create_time < procs[1].create_time
    /\ KilledPids = {procs[3].pid, procs[1].pid}

C12_CoordinateWhenRequired ==
    [][\A w \in Workers :
        (worker[w].pc = "none" /\ worker'[w].pc # "none" /\ manual_checked) =>
            Truthy(worker'[w].config.button_coord)
      ]_vars

\* C13: a configuration written by save_config comes back from load_config
\* the same in every field, the coordinate as the tuple it was or as None.
C13_SaveLoadRoundTrip ==
    (load_result.called /\ saved # NoConfig) =>
        /\ ~load_result.raised
        /\ load_result.value.interval_min = saved.interval_min
        /\ load_result.value.webhook1 = saved.webhook1
        /\ load_result.value.webhook2 = saved.webhook2
        /\ load_result.value.ping_id = saved.ping_id
        /\ load_result.value.limit_strap = saved.limit_strap
        /\ load_result.value.button_coord = saved.button_coord

C13_LoadedWithCoordinate ==
    /\ load_result.called
    /\ saved # NoConfig /\ saved.button_coord = Coord /\ saved.webhook2 = Hook2
    /\ load_result.value = saved

\* The file is missing, cannot be read or parsed, holds no object, or holds
\* values AppConfig does not accept
BadFile(file) ==
    \/ file.kind # "json"
    \/ file.data.extra
    \/ file.data.interval_min \notin 1..999
    \/ \E url \in {file.data.webhook1, file.data.webhook2} :
          url # << >> /\ SubSeq(url, 1, 2) \notin {DiscordPrefix, DiscordAppPrefix}

\* C14: load_config raises nothing, and on a file that is missing, unreadable,
\* not JSON or not acceptable to AppConfig it returns exactly AppConfig().
C14_LoadFallsBackToDefaults ==
    load_result.called =>
        /\ ~load_result.raised
        /\ BadFile(config_file) =>
              load_result.value = AppConfig(28, << >>, << >>, << >>, FALSE, NoCoord)

C14_DefaultsForBadInterval ==
    /\ load_result.called
    /\ config_file.kind = "json" /\ config_file.data.interval_min = 1000
    /\ load_result.value = DefaultConfig

\* C15: send_notification POSTs to every configured endpoint, in order, whatever
\* the earlier POSTs did; it raises nothing, and returns whether one got through.
C15_EveryEndpointAttempted ==
    send_call.called =>
        /\ Len(send_call.posts) = Len(send_call.urls)
        /\ \A j \in 1..Len(send_call.urls) : send_call.posts[j].url = send_call.urls[j]
        /\ ~send_call.raised
        /\ send_call.value = (\E j \in 1..Len(send_call.urls) : send_call.outcome[j] = "ok")

\* the first endpoint fails, the second is still POSTed to and succeeds
C15_SecondAfterFailedFirst ==
    /\ send_call.called
    /\ send_call.urls = <<Hook1, Hook2>>
    /\ send_call.outcome[1] = "ConnectionError" /\ send_call.outcome[2] = "ok"
    /\ Len(send_call.posts) = 2 /\ send_call.posts[2].url = Hook2
    /\ send_call.value

\* What a tick of worker w did about the scheduled restart, read off its log
ScheduledByElapsed(w) ==
    LET L == Done(w)
        I == IntervalSeconds(worker[w])
    IN  /\ \A j \in 1..Len(L) :
            /\ L[j].ev = "elapsed" =>
                  ((\E i \in j + 1..Len(L) : IsNotify(L[i], "scheduled")) <=> L[j].n >= I)
            /\ IsNotify(L[j], "scheduled") =>
                  /\ \E i \in 1..j - 1 : L[i].ev = "elapsed" /\ L[i].n >= I
                  /\ \A i \in 1..j - 1 : ~IsNotify(L[i], "crash")
            /\ (L[j].ev = "ret" /\ L[j].n = 1) =>
                  /\ j < Len(L)
                  /\ L[j + 1] = Ev("cycle_reset", "", 0, 0)
            /\ L[j].ev = "cycle_reset" =>
                  j > 1 /\ L[j - 1].ev = "ret" /\ L[j - 1].n = 1

\* The time worker w slept during a step
Slept(w) ==
    IF Sleeping(w) /\ worker'[w].pc = worker[w].pc
          /\ worker'[w].sleep_left < worker[w].sleep_left
    THEN worker[w].sleep_left - worker'[w].sleep_left
    ELSE 0

\* C16: a tick that reads the elapsed time begins a scheduled restart exactly
\* when that time is at least the interval, never after a crash restart of the
\* same tick; a restart that returns True is followed at once by cycle_start = now
\* and warning_sent = False, and nothing else sets cycle_start: between two
\* steps of a running worker its age is 0 or has grown by the time slept.
C16_ScheduledRestartWhenDue ==
    [][\A w \in Workers :
          /\ ScheduledByElapsed(w)'
          /\ (IsRunning(w) /\ IsRunning(w)') =>
                \/ worker'[w].cycle_start_age = 0
                \/ worker'[w].cycle_start_age = worker[w].cycle_start_age + Slept(w)]_vars

\* a scheduled restart began at elapsed = interval, verified, and reset the cycle
C16_ScheduledRestartDone ==
    \E w \in Workers :
        LET L == Done(w)
        IN  /\ Len(L) >= 4
            /\ \E j \in 1..Len(L) : L[j].ev = "elapsed" /\ L[j].n = IntervalSeconds(worker[w])
            /\ \E j \in 1..Len(L) : IsNotify(L[j], "scheduled")
            /\ L[Len(L)] = Ev("cycle_reset", "", 0, 0)
            /\ worker[w].cycle_start_age = 0 /\ ~worker[w].warning_sent

\* The strategies of a click, without what it returned
Strategies(tried) == SubSeq(tried, 1, Len(tried) - 1)

\* C17: click_join_server_button tries the UI automation first; it tries the
\* coordinate click exactly when that failed and a coordinate is set, and nothing
\* after a strategy that succeeded; it returns True exactly when a strategy it
\* tried succeeded, and False otherwise.
C17_StrategiesInOrder ==
    \A w \in Workers :
        worker[w].pc = "verify" =>
            LET r == worker[w]
                S == Strategies(r.tried)
            IN  /\ Len(r.tried) >= 2
                /\ r.tried[Len(r.tried)][1] = "return"
                /\ S[1][1] = "uia"
                /\ Len(S) <= 2
                /\ Len(S) = 2 <=> (~S[1][2] /\ Truthy(JoinCoord(r)))
                /\ Len(S) = 2 => S[2][1] = "coord"
                /\ \A j \in 1..Len(S) - 1 : ~S[j][2]
                /\ r.join_ok \in BOOLEAN
                /\ r.join_ok = (\E j \in 1..Len(S) : S[j][2])

\* the UI automation failed and the click at the coordinate succeeded
C17_CoordinateAfterFailedInvoke ==
    \E w \in Workers :
        /\ worker[w].pc = "verify"
        /\ worker[w].tried = <<<<"uia", FALSE>>, <<"coord", TRUE>>, <<"return", TRUE>>>>
        /\ worker[w].join_ok

\* What a worker acts on: interval (line 433), endpoints (line 267), ping id
\* (line 397), limit_strap (line 385) and the coordinate of the click
ActsOn(r) ==
    <<r.config.interval_min, r.webhook_urls, r.config.ping_id, r.config.limit_strap,
      JoinCoord(r)>>

\* C18: a worker is started with the values of the configuration handed to it,
\* and no step taken while it runs (capture, toggle, save, load, stop) changes
\* the interval, endpoints, ping id, limit_strap flag or coordinate it acts on.
C18_RunKeepsItsConfig ==
    [][\A w \in Workers :
          /\ (~IsRunning(w) /\ IsRunning(w)') =>
                ActsOn(worker[w])' =
                    <<config'.interval_min, SelectSeq(Webhooks(config'), NonBlank),
                      config'.ping_id, config'.limit_strap, config'.button_coord>>
          /\ (IsRunning(w) /\ IsRunning(w)') =>
                ActsOn(worker[w])' = ActsOn(worker[w])]_vars

\* while the worker runs, a coordinate was captured and other settings were saved
C18_SurfaceChangedDuringRun ==
    \E w \in Workers :
        /\ IsRunning(w) /\ watchdog = w
        /\ worker[w].config.button_coord = Coord /\ worker[w].manual_coord = NoCoord
        /\ config.interval_min # worker[w].config.interval_min
        /\ config.limit_strap # worker[w].config.limit_strap

RetryAt(S) == {j \in 1..Len(S) : IsNotify(S[j], "retry")}

\* C19: the steps of a restart sequence are in the order of _perform_restart: one
\* reason notification, first; every click right after a kill_target_processes
\* that follows the reason notification (attempt 1) or the retry notification
\* after the previous verification; every verification right after its click; a
\* retry notification right after each failed verification but the 3rd, so at
\* most 2 of them, and none after a success or the 3rd failure.
C19_StepsInOrder ==
    \A w \in Workers : \A i \in ReasonAt(Done(w)) :
        LET S == Restart(Done(w), i)
        IN  /\ InOrder(S)
            /\ {j \in 1..Len(S) : IsReason(S[j])} = {1}
            /\ \A j \in 1..Len(S) :
                /\ S[j].ev = "join" =>
                      /\ j > 2 /\ S[j - 1].ev = "kill"
                      /\ IF S[j].n = 1
                         THEN j = 3
                         ELSE /\ j > 3 /\ IsNotify(S[j - 2], "retry")
                              /\ S[j - 3].ev = "verify" /\ S[j - 3].k = S[j].n - 1
                /\ S[j].ev = "verify" =>
                      j > 1 /\ S[j - 1].ev = "join" /\ S[j - 1].n = S[j].k
                /\ IsNotify(S[j], "retry") =>
                      /\ j > 1 /\ S[j - 1].ev = "verify"
                      /\ S[j - 1].n = 0 /\ S[j - 1].k < MAX_RETRIES
                /\ (S[j].ev = "verify" /\ S[j].n = 0 /\ S[j].k < MAX_RETRIES) =>
                      j < Len(S) /\ IsNotify(S[j + 1], "retry")
                /\ (S[j].ev = "verify" /\ (S[j].n > 0 \/ S[j].k = MAX_RETRIES)) =>
                      \A k \in j + 1..Len(S) : ~IsNotify(S[k], "retry") /\ S[k].ev # "kill"
            /\ Cardinality(RetryAt(S)) <= MAX_RETRIES - 1
            /\ Cardinality(RetryAt(S)) = Cardinality({j \in 1..Len(S) :
                    S[j].ev = "verify" /\ S[j].n = 0 /\ S[j].k < MAX_RETRIES})

\* two attempts failed, each followed by a retry notification, and the 3rd succeeded
C19_TwoRetriesThenSuccess ==
    \E w \in Workers : \E i \in ReasonAt(Done(w)) :
        LET S == Restart(Done(w), i)
        IN  /\ Cardinality(RetryAt(S)) = 2
            /\ Count(S, "kill") = 3
            /\ S[Len(S)].ev = "ret" /\ S[Len(S)].n = 1

\* What worker w appends to its log in a step
Appended(w) == SubSeq(worker'[w].log, Len(worker[w].log) + 1, Len(worker'[w].log))

\* C20: whatever kill_target_processes and click_join_server_button returned,
\* the attempt goes from the settle sleep to the click and the verification
\* sleep, and from there to the count; the attempt succeeds (the restart returns
\* True) exactly when that count is above 0, otherwise the next attempt or the
\* failure follows.
C20_FailuresDoNotAbort ==
    [][\A w \in Workers :
          LET r == worker[w]
              q == worker'[w]
          IN  /\ (r.pc = "settle" /\ q.pc # "settle") =>
                    /\ q.pc = "verify" /\ q.sleep_left = VERIFY_DELAY
                    /\ q.attempt = r.attempt
                    /\ Appended(w) = <<Ev("join", "", r.attempt, 0)>>
              /\ (r.pc = "verify" /\ q.pc # "verify") =>
                    LET A == Appended(w)
                    IN  /\ Len(A) >= 2
                        /\ A[1].ev = "verify" /\ A[1].k = r.attempt
                        /\ (\E j \in 1..Len(A) : A[j] = Ev("ret", "", 1, 0)) <=> A[1].n > 0
                        /\ A[1].n = 0 =>
                              IF r.attempt < MAX_RETRIES
                              THEN q.pc = "settle" /\ q.attempt = r.attempt + 1
                              ELSE \E j \in 1..Len(A) : A[j] = Ev("ret", "", 0, 0)]_vars

\* the kill and the click of an attempt both failed and the attempt is at the
\* end of its verification sleep
C20_VerifyingAfterFailedKillAndClick ==
    \E w \in Workers :
        /\ worker[w].pc = "verify" /\ worker[w].sleep_left = 0
        /\ ~worker[w].kill_ok /\ ~worker[w].join_ok
        /\ worker[w].tried = <<<<"uia", FALSE>>, <<"coord", FALSE>>, <<"return", FALSE>>>>

\* C21: with an interval of 1 minute (interval - WARNING_OFFSET = 0) the first
\* reading of the elapsed time in a cycle, after the start or after a restart
\* that returned True, is followed at once by the warning; no later reading of
\* the cycle is; and the scheduled restart begins at the first reading of at
\* least 60 s, which is a later tick than the warning's.
C21_WarningAtFirstTick ==
    \A w \in Workers :
        worker[w].config.interval_min = 1 =>
            LET L == Done(w)
                r == worker[w]
            IN  /\ \A j \in 1..Len(L) :
                    L[j].ev = "elapsed" =>
                        /\ (j < Len(L) /\ IsNotify(L[j + 1], "warning")) <=> L[j].k = -1
                        /\ (\E i \in j + 1..Len(L) : IsNotify(L[i], "scheduled")) <=>
                               L[j].n >= 60
                        /\ L[j].n >= 60 => (L[j].k # -1 /\ L[j].k < 60)
                /\ r.warnings <= 1
                /\ (IsRunning(w) /\ r.last_elapsed # -1) => (r.warning_sent /\ r.warnings = 1)

\* a crash restart succeeded and the warning of the new cycle went out in that tick
C21_WarningRightAfterCrashRestart ==
    \E w \in Workers :
        LET L == Done(w)
        IN  /\ worker[w].config.interval_min = 1
            /\ \E j \in 1..Len(L) - 2 :
                  /\ L[j].ev = "cycle_reset"
                  /\ L[j + 1] = Ev("elapsed", "", 0, -1)
                  /\ IsNotify(L[j + 2], "warning")

\* C22: in the tick of a crash restart that returned True, nothing of lines
\* 432-451 follows the restart: the elapsed time is not read for the scheduled
\* test and no warning is sent.
C22_CrashRestartEndsTheTick ==
    \A w \in Workers : \A i \in ReasonAt(Done(w)) :
        LET L == Done(w)
            e == RestartEnd(L, i)
        IN  (IsNotify(L[i], "crash") /\ L[e] = Ev("ret", "", 1, 0)) =>
                \A k \in e + 1..Len(L) :
                    L[k].ev # "elapsed" /\ ~IsNotify(L[k], "warning")

\* C23: once stop() was called during a restart sequence, the verification of
\* the attempt under way is the last step of an attempt in that sequence: no
\* retry notification, kill_target_processes or click follows it.
C23_StopEndsTheAttempts ==
    \A w \in Workers : \A i \in ReasonAt(Log(w)) :
        LET L == Log(w)
            e == RestartEnd(L, i)
        IN  \A s \in i..e : \A v \in s + 1..e :
                (L[s].ev = "stop" /\ L[v].ev = "verify") =>
                    \A k \in v + 1..e :
                        L[k].ev \notin {"kill", "join"} /\ ~IsNotify(L[k], "retry")

\* The restart sequences worker w began after stop() was called
BegunAfterStop(w) ==
    {i \in ReasonAt(Log(w)) : \E s \in 1..i - 1 : Log(w)[s].ev = "stop"}

\* The run of worker w is over and the last status it emitted is Stopped or Failed
EndedWithStatus(w) ==
    /\ worker[w].pc = "done"
    /\ \E j \in 1..Len(worker[w].emitted) :
          j = Len(worker[w].emitted) /\ worker[w].emitted[j] \in {StatusStopped, StatusFailed}

\* C24: a running worker whose stop() was called eventually leaves run() with
\* Stopped or Failed as its last status, and begins at most one restart sequence
\* after the call.
C24_StopEventuallyHonoured ==
    /\ [](\A w \in Workers : Cardinality(BegunAfterStop(w)) <= 1)
    /\ \A w \in Workers :
          (IsRunning(w) /\ worker[w].stop_requested) ~> EndedWithStatus(w)

\* stop() came between the stop check and the poll, the poll saw a crash, and
\* the restart begun after it used up its attempts
C24_RestartBegunAfterStopFailed ==
    \E w \in Workers :
        /\ Cardinality(BegunAfterStop(w)) = 1
        /\ EndedWithStatus(w)
        /\ worker[w].emitted = <<StatusRunning, StatusFailed>>

\* C25: the status the window shows is its initial text or a status a worker
\* emitted: the window writes none of its own, and it shows Stopped only when a
\* worker has emitted Stopped.
C25_StatusFromWorkerOnly ==
    /\ status_label \in {"Ready"} \cup UNION {Range(worker[w].emitted) : w \in Workers}
    /\ status_label = StatusStopped =>
          \E w \in Workers : StatusStopped \in Range(worker[w].emitted)

\* C26: while a scheduled restart runs, warning_sent is True and the cycle's one
\* warning has gone out, in an earlier tick or earlier in this one: in the tick's
\* log no warning comes after the scheduled reason notification.
C26_WarningBeforeScheduledRestart ==
    \A w \in Workers :
        LET L == Done(w)
            r == worker[w]
        IN  /\ (InRestart(w) /\ r.reason = "scheduled") =>
                  (r.warning_sent /\ r.warnings = 1)
            /\ \A i \in 1..Len(L) :
                  IsNotify(L[i], "scheduled") =>
                      \A j \in i + 1..RestartEnd(L, i) : ~IsNotify(L[j], "warning")

\* a scheduled restart under way, its warning sent in an earlier tick
C26_ScheduledRestartAfterWarning ==
    \E w \in Workers :
        /\ InRestart(w) /\ worker[w].reason = "scheduled"
        /\ worker[w].config.interval_min = 2
        /\ worker[w].warning_sent /\ worker[w].warnings = 1
        /\ \A j \in 1..Len(Done(w)) : ~IsNotify(Done(w)[j], "warning")

\* C27: a poll begins a crash restart only when the count it is compared with
\* was read in the current cycle, that is after cycle_start was last set: never
\* a count read before a restart against one read after it.
C27_CrashTestWithinCycle ==
    [][\A w \in Workers :
          (worker[w].pc = "poll" /\ worker'[w].pc = "settle"
                /\ worker'[w].reason = "crash") =>
              worker[w].fresh_count]_vars

\* C28: a tick whose poll reads a count other than 1, or reads 1 after a poll
\* that read at most 1, begins no crash restart; the only restart such a tick
\* can begin is the scheduled one, after reading an elapsed time of at least the
\* interval.
C28_OnlyDropToOne ==
    \A w \in Workers :
        LET L == Done(w)
            I == IntervalSeconds(worker[w])
        IN  \A j \in 1..Len(L) :
                (L[j].ev = "count" /\ (L[j].n # 1 \/ L[j].k <= 1)) =>
                    \A i \in ReasonAt(L) :
                        /\ IsNotify(L[i], "scheduled")
                        /\ \E e \in j + 1..i - 1 : L[e].ev = "elapsed" /\ L[e].n >= I

\* the count dropped from 3 to 2 at the tick of the interval: no crash restart,
\* the scheduled one begins
C28_DropToTwoThenScheduled ==
    \E w \in Workers :
        LET L == Done(w)
        IN  /\ Len(L) >= 3
            /\ L[1] = Ev("count", "", 2, 3)
            /\ \E i \in ReasonAt(L) : IsNotify(L[i], "scheduled")
            /\ InRestart(w)

====
